---- MODULE Spec2Model ----
(***************************************************************************)
(* Aero-Calculator: the 3D viewport (src/editor_window.py, class Viewport  *)
(* and the EditorWindow handlers that drive it), the stand-alone model     *)
(* loader (src/model_loader.py) and the OpenGL buffer names they own.      *)
(*                                                                         *)
(* Conventions                                                             *)
(*  - For the string-valued attributes (selected_object, selected_axis,    *)
(*    current_model_path) Python None is the string "None".                *)
(*  - A GLuint handle is the one-element sequence << name >>; name 0 is    *)
(*    what a GLuint(0) holds when glGenBuffers generated nothing.  A       *)
(*    handle attribute that is None (or, for vbo_colors and wind_plate,    *)
(*    was never assigned) is the empty sequence.                           *)
(*  - gl_live is the driver's set of allocated names; gl_double and ev are *)
(*    history variables: the names a delete was issued for while they were *)
(*    not allocated (a second delete of a freed name), and the last        *)
(*    handler that ran with what it did.                                   *)
(*  - gl_ctx is "current" while the widget's OpenGL context is current,    *)
(*    and otherwise says what a GL call does on the platform.              *)
(***************************************************************************)
EXTENDS Integers, Sequences, FiniteSets, TLC

VARIABLES
    \* ---- Viewport (src/editor_window.py:41-91) ----
    model_vertices, model_normals, model_loaded, current_model_path,
    vertex_count, vbo_vertices, vbo_normals, vbo_colors,
    transform_mode, selected_object, selected_axis, dragging,
    drag_start_transform, orbiting, panning, zoom, wind_plate,
    show_grid, show_axes, rotation, pan_offset,
    \* ---- model loader object (src/model_loader.py) ----
    ml_vbo, ml_vao, ml_texture,
    \* ---- renderer object (src/renderer.py) ----
    r_vbo,
    \* ---- environment and history ----
    closed, infile, gl_live, gl_double, gl_ctx, ev

vars == << model_vertices, model_normals, model_loaded, current_model_path,
           vertex_count, vbo_vertices, vbo_normals, vbo_colors,
           transform_mode, selected_object, selected_axis, dragging,
           drag_start_transform, orbiting, panning, zoom, wind_plate,
           show_grid, show_axes, rotation, pan_offset,
           ml_vbo, ml_vao, ml_texture, r_vbo,
           closed, infile, gl_live, gl_double, gl_ctx, ev >>

viewVars == << model_vertices, model_normals, model_loaded, current_model_path,
               vertex_count, vbo_vertices, vbo_normals, vbo_colors >>
selVars == << transform_mode, selected_object, selected_axis, dragging,
              drag_start_transform, orbiting, panning >>
mlVars == << ml_vbo, ml_vao, ml_texture, r_vbo >>
glVars == << gl_live, gl_double, gl_ctx >>
camVars == << zoom, show_grid, show_axes, rotation, pan_offset >>

(***************************************************************************)
(* Bounds                                                                  *)
(***************************************************************************)
\* the driver's pool of names: 1 .. MaxBuffers
MaxBuffers == 6
\* largest total displacement (summed over the axes and over the mesh and the
\* wind plate) that drags may leave the scene with
MaxDrag == 1
\* largest file index written in a generated face record
MaxIndex == 3
\* the largest distance of the camera, in half degrees and pan units, from
\* its default angles and pan offset
MaxTurn == 1

None == "None"
NoHandle == << >>

(***************************************************************************)
(* Vectors                                                                 *)
(***************************************************************************)
Vec(x, y, z) == << x, y, z >>
VAdd(a, b) == << a[1] + b[1], a[2] + b[2], a[3] + b[3] >>
VSub(a, b) == << a[1] - b[1], a[2] - b[2], a[3] - b[3] >>
VScale(a, k) == << a[1] * k, a[2] * k, a[3] * k >>
Dot(a, b) == a[1] * b[1] + a[2] * b[2] + a[3] * b[3]
Cross(a, b) == << a[2] * b[3] - a[3] * b[2],
                  a[3] * b[1] - a[1] * b[3],
                  a[1] * b[2] - a[2] * b[1] >>
Abs(x) == IF x < 0 THEN -x ELSE x
Max2(a, b) == IF a > b THEN a ELSE b
Min2(a, b) == IF a < b THEN a ELSE b

(***************************************************************************)
(* Mesh files.  A file is its extension, whether some numeric token fails  *)
(* float()/int(), its v records, its vn records and its f records; a face  *)
(* corner "i/t/n" is [v |-> i, hasn |-> TRUE, n |-> n], a corner "i" or    *)
(* "i/t" or "i//" is [v |-> i, hasn |-> FALSE, n |-> 0].                   *)
(***************************************************************************)
C(i) == [v |-> i, hasn |-> FALSE, n |-> 0]
CN(i, k) == [v |-> i, hasn |-> TRUE, n |-> k]

MkFile(e, b, vs, vns, fs) ==
    [ext |-> e, bad |-> b, vs |-> vs, vns |-> vns, faces |-> fs]

TriVs == << Vec(0, 0, 0), Vec(2, 0, 0), Vec(0, 2, 0) >>
QuadVs == << Vec(0, 0, 0), Vec(2, 0, 0), Vec(2, 2, 0), Vec(0, 2, 0) >>
UpVn == << Vec(0, 0, 1) >>

FileOf(path) ==
    CASE path = "tri.obj"   -> MkFile("obj", FALSE, TriVs, << >>, << << C(1), C(2), C(3) >> >>)
      [] path = "quad.obj"  -> MkFile("obj", FALSE, QuadVs, UpVn,
                                      << << CN(1, 1), CN(2, 1), CN(3, 1), CN(4, 1) >> >>)
      [] path = "empty.obj" -> MkFile("obj", FALSE, << >>, << >>, << >>)
      [] path = "zero.obj"  -> MkFile("obj", FALSE, TriVs, << >>, << << C(0), C(1), C(2) >> >>)
      [] path = "over.obj"  -> MkFile("obj", FALSE, TriVs, << >>, << << C(1), C(2), C(4) >> >>)
      [] path = "bad.obj"   -> MkFile("obj", TRUE, TriVs, << >>, << << C(1), C(2), C(3) >> >>)
      [] path = "a.fbx"     -> MkFile("fbx", FALSE, << >>, << >>, << >>)
      [] path = "a.stl"     -> MkFile("other", FALSE, << >>, << >>, << >>)
      [] OTHER              -> infile

\* the files a scene is driven with
ScenePaths == {"tri.obj", "over.obj", "a.fbx", "a.stl"}
\* the files buffer ownership is driven with
GpuPaths == {"tri.obj", "quad.obj", "empty.obj", "over.obj", "bad.obj", "a.fbx", "a.stl"}
\* the path under which the generated file infile is loaded
GenPath == "gen.obj"

(***************************************************************************)
(* load_obj, reading and triangle assembly (src/editor_window.py:749-799)  *)
(***************************************************************************)
\* Python list indexing: lst[i] is defined for -len <= i < len
PyIndexOK(len, i) == -len <= i /\ i < len
\* the 1-based position Python's lst[i] denotes
PyPos(len, i) == IF i >= 0 THEN i + 1 ELSE len + i + 1

\* verts.append(int(w[0]) - 1) for every corner
FaceVerts(face) == [j \in 1..Len(face) |-> face[j].v - 1]

RECURSIVE FaceNorms(_)
\* norms.append(int(w[2]) - 1) only for the corners that carry a normal index
FaceNorms(face) ==
    IF face = << >> THEN << >>
    ELSE LET rest == FaceNorms(Tail(face))
         IN IF Head(face).hasn THEN << Head(face).n - 1 >> \o rest ELSE rest

\* a triangle strip [i - 1, i, i + 1] in place of the fan
TriCorners_strip(k) ==
    IF k < 3 THEN << >>
    ELSE [j \in 1..(3 * (k - 2)) |-> ((j - 1) \div 3) + ((j - 1) % 3)]

\* [0, i, i + 1] for i in range(1, len(face_verts) - 1), flattened
TriCorners(k) ==
    IF k < 3 THEN << >>
    ELSE [j \in 1..(3 * (k - 2)) |->
            LET i == ((j - 1) \div 3) + 1
                r == (j - 1) % 3
            IN IF r = 0 THEN 0 ELSE i + r - 1]

\* the first corner of the triangle the j-th emitted corner belongs to
TriOf(j) == ((j - 1) \div 3) + 1

\* "face_norms and len(face_norms) > idx"
UsesSuppliedNormal(fn, idx) == fn # << >> /\ Len(fn) > idx

\* some temp_vertices[...] or temp_normals[...] of the face raises IndexError
FaceIndexError(f, face) ==
    LET fv == FaceVerts(face)
        fn == FaceNorms(face)
        tc == TriCorners(Len(fv))
    IN \E j \in 1..Len(tc) :
          \/ ~PyIndexOK(Len(f.vs), fv[tc[j] + 1])
          \/ /\ UsesSuppliedNormal(fn, tc[j])
             /\ ~PyIndexOK(Len(f.vns), fn[tc[j] + 1])

\* a normal is << x, y, z, q >>, the vector (x, y, z) / sqrt(q); q = 0 is what
\* a division by a zero length leaves (nan)
\* the normalisation without its "if np.linalg.norm(normal) > 0" test
computed_normal_alwaysDivides(cross) ==
    << cross[1], cross[2], cross[3], Dot(cross, cross) >>

\* normal / np.linalg.norm(normal) if np.linalg.norm(normal) > 0
\*                                 else np.array([0.0, 1.0, 0.0])
computed_normal(cross) ==
    IF Dot(cross, cross) > 0
    THEN << cross[1], cross[2], cross[3], Dot(cross, cross) >>
    ELSE << 0, 1, 0, 1 >>

\* the corners one face appends to vertices_list / normals_list:
\*  vi  the 0-based temp_vertices index as written (file index - 1)
\*  pos the position appended
\*  supplied, ni, nvec   the temp_normals entry appended, or
\*  cross  np.cross(v2 - v1, v3 - v1) of the triangle when the normal is computed
\*  normal the entry appended to normals_list
FaceEmit(f, face) ==
    LET fv == FaceVerts(face)
        fn == FaceNorms(face)
        tc == TriCorners(Len(fv))
        P(idx) == f.vs[PyPos(Len(f.vs), fv[idx + 1])]
    IN [j \in 1..Len(tc) |->
          LET idx == tc[j]
              i == TriOf(j)
              sup == UsesSuppliedNormal(fn, idx)
              nvec == IF sup THEN f.vns[PyPos(Len(f.vns), fn[idx + 1])] ELSE Vec(0, 0, 0)
              cross == IF sup THEN Vec(0, 0, 0)
                       ELSE Cross(VSub(P(i), P(0)), VSub(P(i + 1), P(0)))
          IN [vi |-> fv[idx + 1],
              pos |-> P(idx),
              supplied |-> sup,
              ni |-> IF sup THEN fn[idx + 1] ELSE 0,
              nvec |-> nvec,
              cross |-> cross,
              normal |-> IF sup THEN Append(nvec, 1) ELSE computed_normal(cross)]]

RECURSIVE EmitAll(_, _)
EmitAll(f, faces) ==
    IF faces = << >> THEN << >>
    ELSE FaceEmit(f, Head(faces)) \o EmitAll(f, Tail(faces))

\* reading and triangle assembly: the exception raised before create_buffers,
\* or the assembled corner list
Assemble(f) ==
    IF f.bad THEN [err |-> "ValueError", corners |-> << >>]
    ELSE IF \E k \in 1..Len(f.faces) : FaceIndexError(f, f.faces[k])
         THEN [err |-> "IndexError", corners |-> << >>]
         ELSE [err |-> "", corners |-> EmitAll(f, f.faces)]

(***************************************************************************)
(* The OpenGL driver, as far as buffer names go.  A state s of the buffer  *)
(* bookkeeping is the record                                               *)
(*   vv, vn  vbo_vertices, vbo_normals     vc  vertex_count                *)
(*   ml      model_loaded                                                  *)
(*   live, double                          the driver's names              *)
(***************************************************************************)
Cur == [vv |-> vbo_vertices, vn |-> vbo_normals, vc |-> vertex_count,
        ml |-> model_loaded, live |-> gl_live, double |-> gl_double, ctx |-> gl_ctx]

\* a GL call made while the context is not current raises in the binding
NoContextRaises(s) == s.ctx = "raises"

\* glDeleteBuffers(1, [h]): name 0 is silently ignored, and so is the call
\* when the driver ignores calls made without a current context
GlDelete(s, h) ==
    IF h[1] = 0 \/ s.ctx # "current" THEN s
    ELSE [s EXCEPT !.live = @ \ {h[1]},
                   !.double = IF h[1] \in s.live THEN @ ELSE @ \cup {h[1]}]

\* glGenBuffers(1, handle): the least name not in use, or 0 when the driver
\* generates nothing
FreeNames(s) == (1..MaxBuffers) \ s.live
GlGenName(s, ok) ==
    IF ok /\ s.ctx = "current" /\ FreeNames(s) # {}
    THEN CHOOSE n \in FreeNames(s) : \A k \in FreeNames(s) : n <= k
    ELSE 0
GlGen(s, ok) ==
    IF GlGenName(s, ok) = 0 THEN s
    ELSE [s EXCEPT !.live = @ \cup {GlGenName(s, ok)}]

(***************************************************************************)
(* Viewport.cleanup (src/editor_window.py:668-687)                         *)
(***************************************************************************)
\* cleanup reaches a glDeleteBuffers call that raises
cleanup_raises(s) == NoContextRaises(s) /\ (s.vv # NoHandle \/ s.vn # NoHandle)

\* cleanup that drops the handles without glDeleteBuffers
cleanup_forgetsDelete(s) ==
    [s EXCEPT !.vv = NoHandle, !.vn = NoHandle, !.vc = 0, !.ml = FALSE]

\* the first glDeleteBuffers raising sends control to the except clause,
\* which logs the error: no attribute is assigned
cleanup(s) ==
    LET s1 == IF s.vv # NoHandle THEN [GlDelete(s, s.vv) EXCEPT !.vv = NoHandle] ELSE s
        s2 == IF s1.vn # NoHandle THEN [GlDelete(s1, s1.vn) EXCEPT !.vn = NoHandle] ELSE s1
    IN IF cleanup_raises(s) THEN s ELSE [s2 EXCEPT !.vc = 0, !.ml = FALSE]

(***************************************************************************)
(* Viewport.create_buffers (src/editor_window.py:158-190); gv, gn: whether *)
(* the driver generates the vertex and the normal buffer name.  It starts  *)
(* with self.makeCurrent().                                                *)
(***************************************************************************)
create_buffers(s, gv, gn) ==
    LET s1 == cleanup([s EXCEPT !.ctx = "current"])
        nv == GlGenName(s1, gv)
        s2 == [GlGen(s1, gv) EXCEPT !.vv = << nv >>, !.vn = << 0 >>]
        nn == GlGenName(s2, gn)
        s3 == [GlGen(s2, gn) EXCEPT !.vn = << nn >>]
    IN [s |-> s3, ok |-> (nv # 0 /\ nn # 0)]

(***************************************************************************)
(* load_obj, centring and scaling (src/editor_window.py:805-814), in exact *)
(* arithmetic: the stored array is the rows num[j] over the one            *)
(* denominator den, i.e. (v - center) * scale with                         *)
(* center = (max + min) / 2 and scale = 5 / max_size, or 1 when max_size   *)
(* is not positive.  float32 rounding is not modelled.                     *)
(***************************************************************************)
SetMax(S) == CHOOSE x \in S : \A y \in S : y <= x
SetMin(S) == CHOOSE x \in S : \A y \in S : x <= y
\* vertices_array.max(axis=0)[k], vertices_array.min(axis=0)[k]
BoxMax(rows, k) == SetMax({rows[j][k] : j \in 1..Len(rows)})
BoxMin(rows, k) == SetMin({rows[j][k] : j \in 1..Len(rows)})
Positions(corners) == [j \in 1..Len(corners) |-> corners[j].pos]
Normals(corners) == [j \in 1..Len(corners) |-> corners[j].normal]
NoData == [num |-> << >>, den |-> 1]

\* max_size taken from the x extent alone, without np.max over the axes
max_size_xOnly(rows) == BoxMax(rows, 1) - BoxMin(rows, 1)

max_size(rows) == SetMax({BoxMax(rows, k) - BoxMin(rows, k) : k \in 1..3})

Normalize(rows) ==
    IF rows = << >> THEN NoData
    ELSE LET ms == max_size(rows)
             sn == IF ms > 0 THEN 5 ELSE 1
             sd == IF ms > 0 THEN ms ELSE 1
             hi == [k \in 1..3 |-> BoxMax(rows, k)]
             lo == [k \in 1..3 |-> BoxMin(rows, k)]
         IN [num |-> [j \in 1..Len(rows) |->
                        [k \in 1..3 |-> (2 * rows[j][k] - hi[k] - lo[k]) * sn]],
             den |-> 2 * sd]

(***************************************************************************)
(* Viewport.load_obj (src/editor_window.py:744-846).  err is the exception *)
(* re-raised to load_model ("" when none); n is len(vertices_array),       *)
(* stored the array assigned to model_vertices and normals the one         *)
(* assigned to model_normals.                                              *)
(***************************************************************************)
load_obj(s, f, gv, gn) ==
    LET a == Assemble(f)
        cb == create_buffers(s, gv, gn)
    IN IF a.err # ""
       THEN [s |-> cleanup(s), err |-> a.err, n |-> 0, stored |-> NoData, normals |-> << >>]
       ELSE IF ~cb.ok
       THEN [s |-> cleanup(cb.s), err |-> "RuntimeError", n |-> 0, stored |-> NoData,
             normals |-> << >>]
       ELSE IF a.corners = << >>
       THEN [s |-> cleanup(cb.s), err |-> "ValueError", n |-> 0, stored |-> NoData,
             normals |-> << >>]
       ELSE [s |-> [cb.s EXCEPT !.vc = Len(a.corners), !.ml = TRUE],
             err |-> "", n |-> Len(a.corners), stored |-> Normalize(Positions(a.corners)),
             normals |-> Normals(a.corners)]

\* the stored arrays: the file they were built from, the number of rows,
\* whether the array is one-dimensional, and the translation drags added
\* and, in data, the rows the load stored; the rows of the normals are
\* load_obj's normals and are not kept in the state
Mesh(src, rows, flat, off) ==
    [src |-> src, rows |-> rows, flat |-> flat, off |-> off, data |-> NoData]
PyLen(m) == IF m.flat THEN 3 * m.rows ELSE m.rows

Event(op, arg, res, log) == [op |-> op, arg |-> arg, res |-> res, log |-> log]

SetBuffers(s) ==
    /\ vbo_vertices' = s.vv
    /\ vbo_normals' = s.vn
    /\ vertex_count' = s.vc
    /\ model_loaded' = s.ml
    /\ gl_live' = s.live
    /\ gl_double' = s.double
    /\ gl_ctx' = s.ctx

(***************************************************************************)
(* Viewport.load_model (src/editor_window.py:717-742)                      *)
(***************************************************************************)
load_model(path, gv, gn) ==
    LET f == FileOf(path)
        s1 == cleanup(Cur)
        r == load_obj(s1, f, gv, gn)
    IN /\ ~closed
       /\ CASE f.ext = "obj" /\ r.err = "" ->
                 /\ SetBuffers(r.s)
                 /\ model_vertices' = [Mesh(path, r.n, FALSE, Vec(0, 0, 0))
                                          EXCEPT !.data = r.stored]
                 /\ model_normals' = Mesh(path, r.n, FALSE, Vec(0, 0, 0))
                 /\ current_model_path' = path
                 /\ ev' = Event("load_model", path, "ok", << >>)
            [] f.ext = "obj" /\ r.err # "" ->
                 /\ SetBuffers(r.s)
                 /\ current_model_path' = None
                 /\ ev' = Event("load_model", path, "error", << r.err >>)
                 /\ UNCHANGED << model_vertices, model_normals >>
            [] f.ext = "fbx" ->
                 /\ SetBuffers(s1)
                 /\ ev' = Event("load_model", path, "unsupported", << >>)
                 /\ UNCHANGED << model_vertices, model_normals, current_model_path >>
            [] OTHER ->
                 /\ SetBuffers([s1 EXCEPT !.ml = TRUE])
                 /\ ev' = Event("load_model", path, "ok", << >>)
                 /\ UNCHANGED << model_vertices, model_normals, current_model_path >>
       /\ UNCHANGED << vbo_colors, selVars, camVars, wind_plate, mlVars, closed, infile >>

\* a client calling Viewport.cleanup directly
Cleanup ==
    /\ ~closed
    /\ SetBuffers(cleanup(Cur))
    /\ ev' = Event("cleanup", IF cleanup(Cur).live = gl_live THEN "noop" ELSE "released",
                   IF cleanup_raises(Cur) THEN "error" ELSE "ok", << >>)
    /\ UNCHANGED << model_vertices, model_normals, current_model_path, vbo_colors,
                    selVars, camVars, wind_plate, mlVars, closed, infile >>

(***************************************************************************)
(* Picking.  A ray direction is [v |-> integer vector, d |-> its length],  *)
(* standing for the unit vector v / d that get_ray_from_mouse returns.     *)
(***************************************************************************)
Ray(v, d) == [v |-> v, d |-> d]
AxisDir(a) == CASE a = "x" -> Vec(1, 0, 0) [] a = "y" -> Vec(0, 1, 0) [] a = "z" -> Vec(0, 0, 1)
Axes == << "x", "y", "z" >>

\* Viewport.point_line_distance, times ray_dir.d: line_dir is the unit axis,
\* so the value is |dot(cross(ray_dir, line_dir), line_start - ray_start)|
point_line_distance(ray_start, ray_dir, line_start, axis) ==
    Abs(Dot(Cross(ray_dir.v, AxisDir(axis)), VSub(line_start, ray_start)))

\* the loop that stops lowering min_distance: the first axis under 0.1 wins
RECURSIVE PickLoop_firstBelow(_, _, _, _, _, _)
PickLoop_firstBelow(k, closest, minnum, ray_start, ray_dir, obj_pos) ==
    IF k > Len(Axes) THEN closest
    ELSE LET dist == point_line_distance(ray_start, ray_dir, obj_pos, Axes[k])
             hit == closest = None /\ 10 * dist < ray_dir.d
         IN IF hit THEN PickLoop_firstBelow(k + 1, Axes[k], dist, ray_start, ray_dir, obj_pos)
            ELSE PickLoop_firstBelow(k + 1, closest, minnum, ray_start, ray_dir, obj_pos)

\* the loop of check_gizmo_pick: best is << closest_axis, min_distance * d >>,
\* min_distance starting at 0.1, i.e. 10 * distance < d
RECURSIVE PickLoop(_, _, _, _, _, _)
PickLoop(k, closest, minnum, ray_start, ray_dir, obj_pos) ==
    IF k > Len(Axes) THEN closest
    ELSE LET dist == point_line_distance(ray_start, ray_dir, obj_pos, Axes[k])
             hit == IF closest = None THEN 10 * dist < ray_dir.d ELSE dist < minnum
         IN IF hit THEN PickLoop(k + 1, Axes[k], dist, ray_start, ray_dir, obj_pos)
            ELSE PickLoop(k + 1, closest, minnum, ray_start, ray_dir, obj_pos)

WindPos == wind_plate[1].position

\* Viewport.get_object_position
get_object_position ==
    IF selected_object = "model" THEN Vec(0, 0, 0)
    ELSE IF selected_object = "wind_plate" THEN WindPos
    ELSE Vec(0, 0, 0)

\* check_gizmo_pick without "if not self.selected_object: return"
check_gizmo_pick_noObjectGuard(ray_start, ray_dir) ==
    PickLoop(1, None, 0, ray_start, ray_dir, get_object_position)

\* Viewport.check_gizmo_pick: the value selected_axis has afterwards
check_gizmo_pick(ray_start, ray_dir) ==
    IF selected_object = None THEN selected_axis
    ELSE PickLoop(1, None, 0, ray_start, ray_dir, get_object_position)

\* Viewport.get_clicked_axis: the same loop about the wind plate, None when
\* no wind plate was created
get_clicked_axis(ray_start, ray_dir) ==
    IF wind_plate = << >> THEN None
    ELSE PickLoop(1, None, 0, ray_start, ray_dir, WindPos)

\* Viewport.get_object_transform; the position of the mesh is its mean,
\* written relative to the mean the mesh had when it was loaded
get_object_transform ==
    IF selected_object = "model"
    THEN << [position |-> model_vertices.off, rotation |-> Vec(0, 0, 0)] >>
    ELSE IF selected_object = "wind_plate"
    THEN << [position |-> WindPos, rotation |-> wind_plate[1].rotation] >>
    ELSE << >>

\* check_object_selection that tests the mesh before the wind plate
check_object_selection_meshFirst(ray_start) ==
    IF model_loaded /\ Dot(ray_start, ray_start) < 4
    THEN << "model", selected_axis >>
    ELSE IF wind_plate # << >> /\ Dot(VSub(ray_start, WindPos), VSub(ray_start, WindPos)) < 4
    THEN << "wind_plate", selected_axis >>
    ELSE << None, None >>

\* Viewport.check_object_selection: << selected_object, selected_axis >> afterwards;
\* np.linalg.norm(v) < 2.0 iff dot(v, v) < 4
check_object_selection(ray_start) ==
    IF wind_plate # << >> /\ Dot(VSub(ray_start, WindPos), VSub(ray_start, WindPos)) < 4
    THEN << "wind_plate", selected_axis >>
    ELSE IF model_loaded /\ Dot(ray_start, ray_start) < 4
    THEN << "model", selected_axis >>
    ELSE << None, None >>

(***************************************************************************)
(* Viewport.mousePressEvent (src/editor_window.py:309-331)                 *)
(***************************************************************************)
mousePressEvent(button, ray_start, ray_dir) ==
    /\ ~closed
    /\ CASE button = "Right" ->
              /\ orbiting' = TRUE
              /\ UNCHANGED << panning, selected_object, selected_axis, dragging,
                              drag_start_transform >>
         [] button = "Middle" ->
              /\ panning' = TRUE
              /\ UNCHANGED << orbiting, selected_object, selected_axis, dragging,
                              drag_start_transform >>
         [] button = "Left" /\ transform_mode ->
              LET axis == check_gizmo_pick(ray_start, ray_dir)
              IN /\ selected_axis' = axis
                 /\ IF axis # None
                    THEN /\ dragging' = TRUE
                         /\ drag_start_transform' = get_object_transform
                    ELSE UNCHANGED << dragging, drag_start_transform >>
                 /\ UNCHANGED << orbiting, panning, selected_object >>
         [] button = "Left" /\ ~transform_mode ->
              LET sel == check_object_selection(ray_start)
              IN /\ selected_object' = sel[1]
                 /\ selected_axis' = sel[2]
                 /\ UNCHANGED << orbiting, panning, dragging, drag_start_transform >>
    /\ ev' = Event("mousePressEvent", button, "ok", << >>)
    /\ UNCHANGED << viewVars, transform_mode, camVars, wind_plate, mlVars, closed,
                    infile, glVars >>

(***************************************************************************)
(* Viewport.mouseReleaseEvent (src/editor_window.py:362-374)               *)
(***************************************************************************)
mouseReleaseEvent(button) ==
    /\ ~closed
    /\ CASE button = "Right" ->
              /\ orbiting' = FALSE
              /\ UNCHANGED << panning, dragging, selected_axis >>
         [] button = "Middle" ->
              /\ panning' = FALSE
              /\ UNCHANGED << orbiting, dragging, selected_axis >>
         [] button = "Left" /\ transform_mode ->
              /\ dragging' = FALSE
              /\ selected_axis' = None
              /\ UNCHANGED << orbiting, panning >>
         [] button = "Left" /\ ~transform_mode ->
              UNCHANGED << orbiting, panning, dragging, selected_axis >>
    /\ ev' = Event("mouseReleaseEvent", button, "ok", << >>)
    /\ UNCHANGED << viewVars, transform_mode, selected_object, drag_start_transform,
                    camVars, wind_plate, mlVars, closed, infile, glVars >>

(***************************************************************************)
(* Viewport.mouseMoveEvent and handle_transform_drag                       *)
(* (src/editor_window.py:376-480).  buttons is event.buttons(); d is the   *)
(* cursor delta << dx, dy >>; m is the number                              *)
(* np.dot(screen_movement, axis) * move_speed the camera and the cursor    *)
(* delta give.  The camera angles are in half degrees (the orbit adds      *)
(* dx * 0.5 and dy * 0.5); the pan offset is in units of pan_speed, for    *)
(* the camera basis right = (1, 0, 0), up = (0, 1, 0).  The cursor         *)
(* position last_pos is not part of the state: it is None only before the  *)
(* first press or move, when no mode flag is set and the early return does *)
(* what the branch "none" does.                                            *)
(***************************************************************************)
default_rotation == Vec(60, 90, 0)
\* how far the camera stands from its default angles and pan offset
Turned(rot, pan) ==
    Abs(rot[1] - default_rotation[1]) + Abs(rot[2] - default_rotation[2])
      + Abs(pan[1]) + Abs(pan[2])
\* "self.rotation[1] -= dx * 0.5; self.rotation[0] += dy * 0.5"
Orbit(rot, d) == << rot[1] + d[2], rot[2] - d[1], rot[3] >>
\* "self.pan_offset[0] += (right[0] * dx + up[0] * -dy) * pan_speed", and [1]
Pan(pan, d) == << pan[1] + d[1], pan[2] - d[2] >>
L1(v) == Abs(v[1]) + Abs(v[2]) + Abs(v[3])
WindDefault == Vec(0, 0, -5)

\* what handle_transform_drag does: "return" (an early return), "wind_plate",
\* "model" (vertices moved and re-uploaded) or "AttributeError" (vertices
\* moved, then self.vbo_vertices.value with vbo_vertices None)
DragOutcome ==
    IF selected_object = None \/ drag_start_transform = << >> THEN "return"
    ELSE IF selected_axis \notin {"x", "y", "z"} THEN "return"
    ELSE IF selected_object = "wind_plate" THEN "wind_plate"
    ELSE IF selected_object = "model"
    THEN IF vbo_vertices = NoHandle THEN "AttributeError" ELSE "model"
    ELSE "return"

\* how far the mesh and the wind plate stand from where they were created
Dragged(verts, plate) ==
    L1(verts.off) + (IF plate = << >> THEN 0 ELSE L1(VSub(plate[1].position, WindDefault)))

\* handle_transform_drag whose y and z branches keep the x branch's axis vector
handle_transform_drag_xAxisOnly(m) ==
    LET movement == VScale(Vec(1, 0, 0), m)
    IN CASE DragOutcome = "wind_plate" ->
              /\ wind_plate' = << [wind_plate[1] EXCEPT
                                     !.position = VAdd(drag_start_transform[1].position, movement)] >>
              /\ Dragged(model_vertices, wind_plate') <= MaxDrag
              /\ UNCHANGED model_vertices
         [] DragOutcome \in {"model", "AttributeError"} ->
              /\ model_vertices' = [model_vertices EXCEPT !.flat = TRUE,
                                                          !.off = VAdd(@, movement)]
              /\ Dragged(model_vertices', wind_plate) <= MaxDrag
              /\ UNCHANGED wind_plate
         [] OTHER -> UNCHANGED << wind_plate, model_vertices >>

handle_transform_drag(m) ==
    LET movement == VScale(AxisDir(selected_axis), m)
    IN CASE DragOutcome = "wind_plate" ->
              /\ wind_plate' = << [wind_plate[1] EXCEPT
                                     !.position = VAdd(drag_start_transform[1].position, movement)] >>
              /\ Dragged(model_vertices, wind_plate') <= MaxDrag
              /\ UNCHANGED model_vertices
         [] DragOutcome \in {"model", "AttributeError"} ->
              /\ model_vertices' = [model_vertices EXCEPT !.flat = TRUE,
                                                          !.off = VAdd(@, movement)]
              /\ Dragged(model_vertices', wind_plate) <= MaxDrag
              /\ UNCHANGED wind_plate
         [] OTHER -> UNCHANGED << wind_plate, model_vertices >>

MoveBranch(buttons) ==
    IF orbiting /\ "Right" \in buttons THEN "orbit"
    ELSE IF panning /\ "Middle" \in buttons THEN "pan"
    ELSE IF dragging /\ selected_axis # None /\ selected_object # None THEN "drag"
    ELSE "none"

\* mouseMoveEvent with independent "if"s in place of the "elif" chain
mouseMoveEvent_ifChain(buttons, d, m) ==
    LET orbit == orbiting /\ "Right" \in buttons
        pan == panning /\ "Middle" \in buttons
        drag == dragging /\ selected_axis # None /\ selected_object # None
    IN /\ ~closed
       /\ rotation' = IF orbit THEN Orbit(rotation, d) ELSE rotation
       /\ pan_offset' = IF pan THEN Pan(pan_offset, d) ELSE pan_offset
       /\ Turned(rotation', pan_offset') <= MaxTurn
       /\ IF drag
          THEN /\ handle_transform_drag(m)
               /\ ev' = Event("mouseMoveEvent", "drag", DragOutcome, << m >>)
          ELSE /\ UNCHANGED << wind_plate, model_vertices >>
               /\ ev' = Event("mouseMoveEvent", MoveBranch(buttons), "ok", << >>)
       /\ UNCHANGED << model_normals, model_loaded, current_model_path, vertex_count,
                       vbo_vertices, vbo_normals, vbo_colors, selVars, zoom, show_grid,
                       show_axes, mlVars, closed, infile, glVars >>

mouseMoveEvent(buttons, d, m) ==
    /\ ~closed
    /\ CASE MoveBranch(buttons) = "orbit" ->
              /\ rotation' = Orbit(rotation, d)
              /\ Turned(rotation', pan_offset) <= MaxTurn
              /\ UNCHANGED << pan_offset, wind_plate, model_vertices >>
              /\ ev' = Event("mouseMoveEvent", "orbit", "ok", << >>)
         [] MoveBranch(buttons) = "pan" ->
              /\ pan_offset' = Pan(pan_offset, d)
              /\ Turned(rotation, pan_offset') <= MaxTurn
              /\ UNCHANGED << rotation, wind_plate, model_vertices >>
              /\ ev' = Event("mouseMoveEvent", "pan", "ok", << >>)
         [] MoveBranch(buttons) = "drag" ->
              /\ handle_transform_drag(m)
              /\ UNCHANGED << rotation, pan_offset >>
              /\ ev' = Event("mouseMoveEvent", "drag", DragOutcome, << m >>)
         [] OTHER ->
              /\ UNCHANGED << rotation, pan_offset, wind_plate, model_vertices >>
              /\ ev' = Event("mouseMoveEvent", "none", "ok", << >>)
    /\ UNCHANGED << model_normals, model_loaded, current_model_path, vertex_count,
                    vbo_vertices, vbo_normals, vbo_colors, selVars, zoom, show_grid,
                    show_axes, mlVars, closed, infile, glVars >>

(***************************************************************************)
(* EditorWindow.toggle_transform_mode (src/editor_window.py:2214-2220)     *)
(***************************************************************************)
toggle_transform_mode(checked) ==
    /\ ~closed
    /\ transform_mode' = checked
    /\ IF ~checked
       THEN selected_object' = None /\ selected_axis' = None
       ELSE UNCHANGED << selected_object, selected_axis >>
    /\ ev' = Event("toggle_transform_mode", IF checked THEN "on" ELSE "off", "ok", << >>)
    /\ UNCHANGED << viewVars, dragging, drag_start_transform, orbiting, panning,
                    camVars, wind_plate, mlVars, closed, infile, glVars >>

(***************************************************************************)
(* EditorWindow.create_wind_plate (src/editor_window.py:2016-2032):        *)
(* Viewport.create_simple_wind_plate, then update_wind_transform, which    *)
(* writes the position and rotation spin boxes into the new plate.  The    *)
(* spin boxes start at (0, 0, -5) and (0, 0, 0) and follow every drag      *)
(* (update_transform_ui), so they hold the plate's last transform.         *)
(***************************************************************************)
WindSizes == {<< 5, 5 >>}

create_wind_plate(size) ==
    /\ ~closed
    /\ wind_plate' = IF wind_plate = << >>
                     THEN << [position |-> WindDefault, rotation |-> Vec(0, 0, 0),
                              size |-> size] >>
                     ELSE << [wind_plate[1] EXCEPT !.size = size] >>
    /\ ev' = Event("create_wind_plate", "", "ok", << >>)
    /\ UNCHANGED << viewVars, selVars, camVars, mlVars, closed, infile, glVars >>

(***************************************************************************)
(* EditorWindow.update_wind_transform (src/editor_window.py:2138-2161),    *)
(* run when the user edits the z position spin box of a wind plate that    *)
(* exists: the plate takes the spin boxes' position                        *)
(***************************************************************************)
update_wind_transform(z) ==
    /\ ~closed
    /\ wind_plate # << >>
    /\ wind_plate' = << [wind_plate[1] EXCEPT !.position[3] = z] >>
    /\ ev' = Event("update_wind_transform", "", "ok", << >>)
    /\ UNCHANGED << viewVars, selVars, camVars, mlVars, closed, infile, glVars >>

(***************************************************************************)
(* EditorWindow.calculate_aerodynamics -> calculate_forces ->              *)
(* Viewport.update_pressure_visualization (src/editor_window.py:1925-2014, *)
(* 861-905); gc: whether the driver generates the colour buffer name       *)
(***************************************************************************)
update_pressure_visualization(gc) ==
    /\ ~closed
    /\ IF model_loaded /\ model_vertices.rows > 0
       THEN IF vbo_colors = << >>
            THEN /\ vbo_colors' = << GlGenName(Cur, gc) >>
                 /\ SetBuffers(GlGen(Cur, gc))
                 /\ ev' = Event("update_pressure_visualization", "", "ok", << "gen" >>)
            ELSE /\ UNCHANGED << vbo_colors, vbo_vertices, vbo_normals, vertex_count,
                                 model_loaded, glVars >>
                 /\ ev' = Event("update_pressure_visualization", "", "ok", << >>)
       ELSE /\ UNCHANGED << vbo_colors, vbo_vertices, vbo_normals, vertex_count,
                            model_loaded, glVars >>
            /\ ev' = Event("update_pressure_visualization", "", "error", << >>)
    /\ UNCHANGED << model_vertices, model_normals, current_model_path, selVars,
                    camVars, wind_plate, mlVars, closed, infile >>

(***************************************************************************)
(* Viewport.paintGL, draw_model, draw_transform_gizmos                     *)
(* (src/editor_window.py:279-307, 235-277, 551-555); the log is the        *)
(* sequence of draw calls of the pass                                      *)
(***************************************************************************)
Opt(c, x) == IF c THEN << x >> ELSE << >>

\* draw_model: nothing, the draw, or the exception its except clause logs
draw_model ==
    IF ~model_loaded \/ vertex_count = 0 THEN << >>
    ELSE IF vbo_vertices = NoHandle \/ vbo_normals = NoHandle
    THEN << "draw_model:AttributeError" >>
    ELSE << "draw_model" >>

\* paintGL that draws the gizmo overlay before the scene
paintGL_gizmosFirst ==
    /\ ~closed
    /\ ev' = Event("paintGL", "", "ok",
                   Opt(selected_object # None, "draw_transform_gizmos")
                   \o Opt(show_grid, "draw_grid") \o Opt(show_axes, "draw_axes")
                   \o (IF model_loaded
                       THEN draw_model \o Opt(vbo_colors # << >>, "draw_streamlines")
                       ELSE << >>)
                   \o Opt(wind_plate # << >>, "draw_wind_plate"))
    /\ gl_ctx' = "current"
    /\ UNCHANGED << viewVars, selVars, camVars, wind_plate, mlVars, closed, infile,
                    gl_live, gl_double >>

paintGL ==
    /\ ~closed
    /\ ev' = Event("paintGL", "", "ok",
                   Opt(show_grid, "draw_grid") \o Opt(show_axes, "draw_axes")
                   \o (IF model_loaded
                       THEN draw_model \o Opt(vbo_colors # << >>, "draw_streamlines")
                       ELSE << >>)
                   \o Opt(wind_plate # << >>, "draw_wind_plate")
                   \o Opt(selected_object # None, "draw_transform_gizmos"))
    /\ gl_ctx' = "current"
    /\ UNCHANGED << viewVars, selVars, camVars, wind_plate, mlVars, closed, infile,
                    gl_live, gl_double >>

(***************************************************************************)
(* The widget's context stops being current (QOpenGLWidget has it current  *)
(* inside paintGL and after makeCurrent(), not in the other handlers).     *)
(* What a GL call made then does is the platform's: the binding raises     *)
(* ("raises") or the call does nothing ("ignored").  The handlers that     *)
(* issue GL calls without makeCurrent() other than cleanup are driven only *)
(* while the context is current.                                           *)
(***************************************************************************)
ContextLost == {"raises", "ignored"}

doneCurrent(k) ==
    /\ ~closed
    /\ gl_ctx' = k
    /\ ev' = Event("doneCurrent", k, "ok", << >>)
    /\ UNCHANGED << viewVars, selVars, camVars, wind_plate, mlVars, closed, infile,
                    gl_live, gl_double >>

(***************************************************************************)
(* EditorWindow.closeEvent -> Viewport.cleanup_gl_resources                *)
(* (src/editor_window.py:1701-1722, 848-859)                               *)
(***************************************************************************)
\* hasattr(self, 'model_loader'): no statement of Viewport assigns it
has_model_loader == FALSE


(***************************************************************************)
(* The model loader (src/model_loader.py).  An attribute is                *)
(* [st |-> "unset" | "None" | "id", id |-> name]; ms is the record of the  *)
(* three attributes and the driver's names.  Buffer, vertex-array and      *)
(* texture names are drawn from the one pool, so that a name stands for    *)
(* one allocation.                                                         *)
(***************************************************************************)
Attr(st, id) == [st |-> st, id |-> id]
CurML == [vbo |-> ml_vbo, vao |-> ml_vao, texture |-> ml_texture,
          live |-> gl_live, double |-> gl_double, ctx |-> gl_ctx]

SetML(ms) ==
    /\ ml_vbo' = ms.vbo
    /\ ml_vao' = ms.vao
    /\ ml_texture' = ms.texture
    /\ r_vbo' = r_vbo
    /\ gl_live' = ms.live
    /\ gl_double' = ms.double
    /\ gl_ctx' = ms.ctx

\* cleanup_existing_buffers that leaves self.vbo set after deleting it
cleanup_existing_buffers_keepsHandle(ms) ==
    LET m1 == IF ms.vbo.st = "id" THEN GlDelete(ms, << ms.vbo.id >>) ELSE ms
        m2 == IF m1.vao.st = "id"
              THEN [GlDelete(m1, << m1.vao.id >>) EXCEPT !.vao = Attr("None", 0)] ELSE m1
        m3 == IF m2.texture.st = "id"
              THEN [GlDelete(m2, << m2.texture.id >>) EXCEPT !.texture = Attr("None", 0)] ELSE m2
    IN IF NoContextRaises(ms) /\ "id" \in {ms.vbo.st, ms.vao.st, ms.texture.st} THEN ms
       ELSE m3

\* cleanup_existing_buffers (src/model_loader.py:33-52); a delete that raises
\* is caught and printed as a warning
cleanup_existing_buffers(ms) ==
    LET m1 == IF ms.vbo.st = "id"
              THEN [GlDelete(ms, << ms.vbo.id >>) EXCEPT !.vbo = Attr("None", 0)] ELSE ms
        m2 == IF m1.vao.st = "id"
              THEN [GlDelete(m1, << m1.vao.id >>) EXCEPT !.vao = Attr("None", 0)] ELSE m1
        m3 == IF m2.texture.st = "id"
              THEN [GlDelete(m2, << m2.texture.id >>) EXCEPT !.texture = Attr("None", 0)] ELSE m2
    IN IF NoContextRaises(ms) /\ "id" \in {ms.vbo.st, ms.vao.st, ms.texture.st} THEN ms
       ELSE m3

\* init_buffers(vertices, normals, texcoords) of the loader: generates the
\* buffer, the vertex array and the texture the loader releases
ml_init_buffers(ms, g) ==
    LET m1 == [GlGen(ms, g) EXCEPT !.vbo = Attr("id", GlGenName(ms, g))]
        m2 == [GlGen(m1, g) EXCEPT !.vao = Attr("id", GlGenName(m1, g))]
        m3 == [GlGen(m2, g) EXCEPT !.texture = Attr("id", GlGenName(m2, g))]
    IN m3

\* load_model (src/model_loader.py:1-23); glinit: is_gl_initialized(),
\* parsed: process_obj_file returns, g: the driver generates names
ml_load_model(glinit, parsed, g) ==
    /\ ~closed
    /\ IF ~glinit
       THEN /\ UNCHANGED << mlVars, glVars >>
            /\ ev' = Event("ml_load_model", "", "False", << "not initialized" >>)
       ELSE IF ~parsed
       THEN /\ SetML(cleanup_existing_buffers(cleanup_existing_buffers(CurML)))
            /\ ev' = Event("ml_load_model", "", "False", << >>)
       ELSE /\ SetML(ml_init_buffers(cleanup_existing_buffers(CurML), g))
            /\ ev' = Event("ml_load_model", "", "True", << >>)
    /\ UNCHANGED << viewVars, selVars, camVars, wind_plate, closed, infile >>

\* a client calling cleanup_existing_buffers directly
ml_cleanup ==
    /\ ~closed
    /\ SetML(cleanup_existing_buffers(CurML))
    /\ ev' = Event("cleanup_existing_buffers",
                   IF cleanup_existing_buffers(CurML).live = gl_live THEN "noop" ELSE "released",
                   "ok", << >>)
    /\ UNCHANGED << viewVars, selVars, camVars, wind_plate, closed, infile >>

\* cleanup_gl_resources releases through the loader, if the Viewport has one
closeEvent ==
    /\ ~closed
    /\ closed' = TRUE
    /\ IF has_model_loader
       THEN SetML(cleanup_existing_buffers([CurML EXCEPT !.ctx = "current"]))
       ELSE UNCHANGED << mlVars, glVars >>
    /\ ev' = Event("closeEvent", "", "ok", << >>)
    /\ UNCHANGED << viewVars, selVars, camVars, wind_plate, infile >>

(***************************************************************************)
(* The renderer (src/renderer.py).  Its vbo attribute is unset until       *)
(* init_buffers assigns a GLuint; nothing in the file assigns texture, so  *)
(* hasattr(self, 'texture') is false.  rs is the attribute and the         *)
(* driver's names.                                                         *)
(***************************************************************************)
CurR == [vbo |-> r_vbo, live |-> gl_live, double |-> gl_double, ctx |-> gl_ctx]

\* int(self.vbo) read as the name the GLuint holds
PyIntRaises_never(a) == FALSE

\* int(self.vbo): a GLuint is a ctypes c_uint, which has no __int__, and its
\* four bytes with a name under 2^24 are no integer literal: int() raises
PyIntRaises(a) == a.st = "id"

\* cleanup (src/renderer.py:1-14): << the state afterwards, what was caught >>
renderer_cleanup(rs) ==
    IF rs.vbo.st = "unset" THEN << rs, "" >>
    ELSE IF PyIntRaises(rs.vbo) THEN << rs, "ValueError" >>
    ELSE IF rs.vbo.st = "id" /\ rs.vbo.id # 0 /\ NoContextRaises(rs) THEN << rs, "GLError" >>
    ELSE << GlDelete(rs, << IF rs.vbo.st = "id" THEN rs.vbo.id ELSE 0 >>), "" >>

\* a client calling cleanup; arg tells whether the call before it was a
\* cleanup as well
r_cleanup ==
    /\ ~closed
    /\ gl_live' = renderer_cleanup(CurR)[1].live
    /\ gl_double' = renderer_cleanup(CurR)[1].double
    /\ ev' = Event("renderer.cleanup",
                   IF ev.op = "renderer.cleanup" THEN "again" ELSE "first",
                   "ok", << renderer_cleanup(CurR)[2] >>)
    /\ UNCHANGED << viewVars, selVars, camVars, wind_plate, mlVars, closed, infile, gl_ctx >>

\* init_buffers (src/renderer.py:16-24); g: the driver generates a name
r_init_buffers(g) ==
    /\ ~closed
    /\ r_vbo' = Attr("id", GlGenName(CurR, g))
    /\ gl_live' = GlGen(CurR, g).live
    /\ ev' = Event("renderer.init_buffers", "", "ok", << >>)
    /\ UNCHANGED << viewVars, selVars, camVars, wind_plate, ml_vbo, ml_vao, ml_texture,
                    closed, infile, gl_double, gl_ctx >>

(***************************************************************************)
(* Camera zoom (src/editor_window.py:636-643, 1307-1312).  Distances are   *)
(* in hundredths of a unit; the product is rounded down to a hundredth.    *)
(***************************************************************************)
ZoomUnit == 100
min_zoom == ZoomUnit \div 10
max_zoom == 100 * ZoomUnit
default_zoom == 15 * ZoomUnit

Clamp(lo, hi, x) == Max2(lo, Min2(hi, x))

\* wheelEvent that clamps from below only
wheelEvent_noUpperClamp(delta) ==
    LET new_zoom == (zoom * (240 - delta)) \div 240
    IN /\ ~closed
       /\ zoom' = Max2(min_zoom, new_zoom)
       /\ ev' = Event("wheelEvent", "", "ok", << >>)
       /\ UNCHANGED << viewVars, selVars, show_grid, show_axes, rotation, pan_offset,
                       wind_plate, mlVars, closed, infile, glVars >>

wheelEvent(delta) ==
    LET new_zoom == (zoom * (240 - delta)) \div 240
    IN /\ ~closed
       /\ zoom' = Clamp(min_zoom, max_zoom, new_zoom)
       /\ ev' = Event("wheelEvent", "", "ok", << >>)
       /\ UNCHANGED << viewVars, selVars, show_grid, show_axes, rotation, pan_offset,
                       wind_plate, mlVars, closed, infile, glVars >>

reset_view ==
    /\ ~closed
    /\ zoom' = default_zoom
    /\ rotation' = default_rotation
    /\ pan_offset' = << 0, 0 >>
    /\ ev' = Event("reset_view", "", "ok", << >>)
    /\ UNCHANGED << viewVars, selVars, show_grid, show_axes, wind_plate, mlVars,
                    closed, infile, glVars >>

\* EditorWindow.toggle_grid / toggle_axes (src/editor_window.py:1602-1608)
toggle_grid(state) ==
    /\ ~closed
    /\ show_grid' = state
    /\ ev' = Event("toggle_grid", "", "ok", << >>)
    /\ UNCHANGED << viewVars, selVars, zoom, show_axes, rotation, pan_offset, wind_plate, mlVars,
                    closed, infile, glVars >>

toggle_axes(state) ==
    /\ ~closed
    /\ show_axes' = state
    /\ ev' = Event("toggle_axes", "", "ok", << >>)
    /\ UNCHANGED << viewVars, selVars, zoom, show_grid, rotation, pan_offset, wind_plate, mlVars,
                    closed, infile, glVars >>

(***************************************************************************)
(* Inputs                                                                  *)
(***************************************************************************)
Buttons == {"Left", "Right", "Middle"}
\* << ray_start, ray_dir >> as get_ray_from_mouse returns them: rays that start
\* on the mesh, on the wind plate, next to either and far from both, along z
\* and along (3, 4, 0) / 5, so that a press can pick each axis or none
SceneRays == {<< Vec(0, 0, 0), Ray(Vec(0, 0, 1), 1) >>,
              << Vec(0, 0, -5), Ray(Vec(0, 0, 1), 1) >>,
              << Vec(0, 1, -5), Ray(Vec(0, 0, 1), 1) >>,
              << Vec(1, 1, 0), Ray(Vec(0, 0, 1), 1) >>,
              << Vec(1, 0, 1), Ray(Vec(3, 4, 0), 5) >>,
              << Vec(0, 0, 20), Ray(Vec(3, 4, 0), 5) >>}
\* these, and rays along (12, 4, 3) / 13 that pass at 1/13 from the x axis
\* and through the y axis of the mesh's gizmo or of the wind plate's
PickRays == SceneRays \cup {<< Vec(4, 1, 1), Ray(Vec(12, 4, 3), 13) >>,
                            << Vec(4, 1, -4), Ray(Vec(12, 4, 3), 13) >>}
Moves == {0, 1}
\* angleDelta().y(): a notch is 120; 240 and more drive the factor to 0 and below
WheelDeltas == {-24000, -120, -15, 15, 120, 240, 480}

\* generated files: nv position records, nn normal records, one face whose
\* corners carry any file index in -1 .. MaxIndex + 1
GenV(i) == Vec(i, i * i, i % 2)
\* three distinct positions on one line
CollinearFile == MkFile("obj", FALSE, << Vec(0, 0, 0), Vec(1, 1, 1), Vec(2, 2, 2) >>, << >>,
                        << << C(1), C(2), C(3) >> >>)
GenCorners == {C(i) : i \in -1..(MaxIndex + 1)}
                 \cup {CN(i, k) : i \in -1..(MaxIndex + 1), k \in 0..2}
GenCorners1 == {C(i) : i \in -1..(MaxIndex + 1)} \cup {CN(i, 1) : i \in -1..(MaxIndex + 1)}
GenFaces == {<< a, b, c >> : a \in GenCorners, b \in GenCorners1, c \in GenCorners1}
GenFiles == {MkFile("obj", FALSE, [i \in 1..nv |-> GenV(i)], [i \in 1..nn |-> Vec(0, 0, 1)],
                    << face >>) : nv \in 0..MaxIndex, nn \in 0..1, face \in GenFaces}
              \cup {CollinearFile}
EmptyFile == MkFile("obj", FALSE, << >>, << >>, << >>)

(***************************************************************************)
(* Initial state: Viewport.__init__ (src/editor_window.py:41-91), a loader *)
(* with no attribute assigned, an untouched driver                         *)
(***************************************************************************)
InitViewport ==
    /\ model_vertices = Mesh("", 0, FALSE, Vec(0, 0, 0))
    /\ model_normals = Mesh("", 0, FALSE, Vec(0, 0, 0))
    /\ model_loaded = FALSE
    /\ current_model_path = None
    /\ vertex_count = 0
    /\ vbo_vertices = NoHandle
    /\ vbo_normals = NoHandle
    /\ vbo_colors = << >>
    /\ transform_mode = FALSE
    /\ selected_object = None
    /\ selected_axis = None
    /\ dragging = FALSE
    /\ drag_start_transform = << >>
    /\ orbiting = FALSE
    /\ panning = FALSE
    /\ zoom = default_zoom
    /\ rotation = default_rotation
    /\ pan_offset = << 0, 0 >>
    /\ wind_plate = << >>
    /\ show_grid = TRUE
    /\ show_axes = TRUE

InitRest ==
    /\ ml_vbo = Attr("unset", 0)
    /\ ml_vao = Attr("unset", 0)
    /\ ml_texture = Attr("unset", 0)
    /\ r_vbo = Attr("unset", 0)
    /\ closed = FALSE
    /\ gl_live = {}
    /\ gl_double = {}
    /\ gl_ctx = "current"
    /\ ev = Event("init", "", "ok", << >>)

Init == InitViewport /\ InitRest /\ infile = EmptyFile

(***************************************************************************)
(* The scene: loads, the primary button, transform mode, the wind plate    *)
(***************************************************************************)
LoadStep == \E p \in ScenePaths : load_model(p, TRUE, TRUE)
PressStep == \E r \in SceneRays : mousePressEvent("Left", r[1], r[2])
ReleaseStep == mouseReleaseEvent("Left")
MoveStep == \E m \in Moves : mouseMoveEvent({"Left"}, << m, 0 >>, m)
ToggleStep == \E c \in BOOLEAN : toggle_transform_mode(c)
WindStep == \E sz \in WindSizes : create_wind_plate(sz)
PressureStep == \E gc \in BOOLEAN : update_pressure_visualization(gc)

Next ==
    \/ LoadStep
    \/ PressStep
    \/ ReleaseStep
    \/ MoveStep
    \/ ToggleStep
    \/ WindStep

Spec == Init /\ [][Next]_vars

(***************************************************************************)
(* Buffer ownership: the viewport's loads and releases next to the         *)
(* loader's                                                                *)
(***************************************************************************)
MLLoadStep == \E gi \in BOOLEAN, ps \in BOOLEAN, g \in BOOLEAN : ml_load_model(gi, ps, g)

GpuLoadStep == \E p \in GpuPaths, gv \in BOOLEAN, gn \in BOOLEAN : load_model(p, gv, gn)

NextGpu ==
    \/ GpuLoadStep
    \/ Cleanup
    \/ paintGL
    \/ PressureStep
    \/ MLLoadStep
    \/ ml_cleanup
    \/ closeEvent

SpecGpu == Init /\ [][NextGpu]_vars

(***************************************************************************)
(* The camera                                                              *)
(***************************************************************************)
WheelStep == \E d \in WheelDeltas : wheelEvent(d)

CamPressStep == \E b \in {"Right"} : mousePressEvent(b, Vec(0, 0, 0), Ray(Vec(0, 0, 1), 1))
CamReleaseStep == \E b \in {"Right"} : mouseReleaseEvent(b)
CamMoveStep == \E bs \in {{}, {"Right"}} : mouseMoveEvent(bs, << 0, 0 >>, 0)

NextCamera ==
    \/ WheelStep
    \/ reset_view
    \/ CamPressStep
    \/ CamReleaseStep
    \/ CamMoveStep

SpecCamera == Init /\ [][NextCamera]_vars

(***************************************************************************)
(* Ingestion of one generated file into a fresh viewport, and again        *)
(***************************************************************************)
InitParse == InitViewport /\ InitRest /\ infile \in GenFiles
GenLoadStep == \E gv \in BOOLEAN, gn \in BOOLEAN : load_model(GenPath, gv, gn)
NextParse == GenLoadStep
SpecParse == InitParse /\ [][NextParse]_vars

(***************************************************************************)
(* Loads and releases made with and without a current context              *)
(***************************************************************************)
CtxPaths == {"tri.obj", "over.obj", "a.fbx"}
CtxLoadStep == \E p \in CtxPaths : load_model(p, TRUE, TRUE)
CtxLostStep == \E k \in ContextLost : doneCurrent(k)
\* is_gl_initialized(): glGetString raises or returns None without a context
CtxMLLoadStep == \E parsed \in BOOLEAN : ml_load_model(gl_ctx = "current", parsed, TRUE)

NextCtx ==
    \/ CtxLoadStep
    \/ Cleanup
    \/ paintGL
    \/ CtxLostStep
    \/ CtxMLLoadStep
    \/ ml_cleanup

SpecCtx == Init /\ [][NextCtx]_vars


(***************************************************************************)
(* Properties                                                              *)
(***************************************************************************)
HandleNames(h) == IF h = << >> THEN {} ELSE {h[1]} \ {0}
LoaderNames == {a.id : a \in {x \in {ml_vbo, ml_vao, ml_texture} : x.st = "id"}} \ {0}
\* a handle attribute that names an allocated buffer
IsLive(h) == h # << >> /\ h[1] \in gl_live
\* the allocated names some handle attribute of the Viewport holds
ViewportLive == (HandleNames(vbo_vertices) \cup HandleNames(vbo_normals)
                    \cup HandleNames(vbo_colors)) \cap gl_live
MeshLoaded == model_loaded /\ vertex_count > 0 /\ IsLive(vbo_vertices) /\ IsLive(vbo_normals)

\* C1: a load_model call whose parse fails while a mesh is loaded leaves the
\* mesh, its vertex and normal buffers, vertex_count and model_loaded as they were.
C1_FailedLoadLeavesScene ==
    [][(MeshLoaded /\ ev'.op = "load_model" /\ ev'.res = "error"
          /\ ev'.log \in {<<"ValueError">>, <<"IndexError">>})
         => /\ model_loaded' = model_loaded
            /\ vertex_count' = vertex_count
            /\ vbo_vertices' = vbo_vertices
            /\ vbo_normals' = vbo_normals
            /\ model_vertices' = model_vertices
            /\ gl_live' = gl_live]_vars

\* C2: after any sequence of loads, every allocated name that is not the colour
\* buffer's or the loader's is held by vbo_vertices or vbo_normals, so at most
\* one vertex and one normal buffer are allocated and none is leaked.
C2_OneLiveBufferPair ==
    /\ gl_live \ (HandleNames(vbo_colors) \cup LoaderNames)
          \subseteq HandleNames(vbo_vertices) \cup HandleNames(vbo_normals)
    /\ (IsLive(vbo_vertices) /\ IsLive(vbo_normals)) => vbo_vertices # vbo_normals

\* a load succeeded after an earlier load had allocated buffers (the colour
\* buffer exists only once a mesh has been loaded before)
C2_Witness ==
    /\ ev.op = "load_model" /\ ev.res = "ok"
    /\ vbo_colors # << >>
    /\ MeshLoaded

\* C3: no release (Viewport.cleanup, cleanup_existing_buffers) issues a delete
\* for a name that is not allocated, and a release leaves its handles absent:
\* a repeated release, or one with nothing allocated, deletes nothing.
C3_ReleaseIdempotent ==
    /\ gl_double = {}
    /\ ev.op = "cleanup" => (vbo_vertices = NoHandle /\ vbo_normals = NoHandle /\ ev.res = "ok")
    /\ ev.op = "cleanup_existing_buffers"
          => (ml_vbo.st # "id" /\ ml_vao.st # "id" /\ ml_texture.st # "id" /\ ev.res = "ok")

\* the loader released a second time after its buffers had been allocated and
\* released, next to a viewport whose mesh buffers were released as well
C3_Witness ==
    /\ ev.op = "cleanup_existing_buffers" /\ ev.arg = "noop"
    /\ ml_vbo.st = "None"
    /\ model_vertices.src # "" /\ vbo_vertices = NoHandle

\* C4: whenever draw_model or handle_transform_drag reads vbo_vertices /
\* vbo_normals, both handles are allocated buffers.
C4_HandlesLiveWhenRead ==
    /\ (ev.op = "mouseMoveEvent" /\ ev.arg = "drag" /\ ev.res \in {"model", "AttributeError"})
          => (IsLive(vbo_vertices) /\ IsLive(vbo_normals))
    /\ ev.op = "paintGL"
          => \A k \in 1..Len(ev.log) : ev.log[k] # "draw_model:AttributeError"

\* C5: after closeEvent no buffer handle of the Viewport names an allocated buffer.
C5_TeardownReleasesAll == closed => ViewportLive = {}

\* C6: load_model of an .fbx file changes neither the mesh, its buffers,
\* vertex_count, model_loaded nor current_model_path.
C6_UnsupportedHasNoEffect ==
    [][(ev'.op = "load_model" /\ ev'.res = "unsupported")
         => /\ model_loaded' = model_loaded
            /\ vertex_count' = vertex_count
            /\ vbo_vertices' = vbo_vertices
            /\ vbo_normals' = vbo_normals
            /\ model_vertices' = model_vertices
            /\ current_model_path' = current_model_path
            /\ gl_live' = gl_live]_vars

\* some corner of some face carries a vertex or normal index outside 1 .. count
HasOutOfRangeIndex(f) ==
    \E k \in 1..Len(f.faces) : \E j \in 1..Len(f.faces[k]) :
        \/ f.faces[k][j].v \notin 1..Len(f.vs)
        \/ f.faces[k][j].hasn /\ f.faces[k][j].n \notin 1..Len(f.vns)

\* C7: a file with a face index outside 1 .. count (0 and negatives included)
\* fails to load and produces no mesh.
C7_OutOfRangeIndexFails ==
    (ev.op = "load_model" /\ ev.arg = GenPath /\ HasOutOfRangeIndex(infile))
        => (ev.res = "error" /\ ~model_loaded /\ vertex_count = 0)

C9_ZoomClamped == min_zoom <= zoom /\ zoom <= max_zoom

\* a scroll that the clamp cut off at max_zoom
C9_Witness == ev.op = "wheelEvent" /\ zoom = max_zoom

\* C10: selected_axis != None implies selected_object != None.
C10_AxisImpliesObject == selected_axis # None => selected_object # None

\* an axis picked on the selected mesh after a failed load had unloaded it
C10_Witness ==
    /\ selected_axis # None /\ selected_object = "model"
    /\ dragging /\ ~model_loaded

\* C11: the drag snapshot is present exactly while a drag is in progress; after
\* the primary button is released no snapshot remains.
C11_SnapshotIffDragging == (drag_start_transform # << >>) <=> dragging

SelectionDangling ==
    \/ selected_object = "model" /\ ~model_loaded
    \/ selected_object = "wind_plate" /\ wind_plate = << >>

\* C13: a drag pointer-move processed while the selected object does not exist
\* applies no transform, touches no buffer, and leaves the controller Idle
\* (dragging false, no axis locked) with the snapshot discarded.
C13_DanglingDragFallsBackToIdle ==
    [][(SelectionDangling /\ ev'.op = "mouseMoveEvent" /\ ev'.arg = "drag")
         => /\ model_vertices' = model_vertices
            /\ wind_plate' = wind_plate
            /\ UNCHANGED << vbo_vertices, vbo_normals, gl_live >>
            /\ ev'.res # "AttributeError"
            /\ ~dragging'
            /\ selected_axis' = None
            /\ drag_start_transform' = << >>]_vars

\* C14: a load_model call made while the mesh is the selected object leaves
\* nothing selected: selected_object and selected_axis are none after it.
C14_LoadClearsMeshSelection ==
    [][(selected_object = "model" /\ MeshLoaded /\ ev'.op = "load_model")
         => (selected_object' = None /\ selected_axis' = None)]_vars

\* C15: after every release of the primary button the controller is Idle:
\* dragging is false and no axis is locked, whatever happened since the press.
C15_ReleaseEndsDrag ==
    (ev.op = "mouseReleaseEvent" /\ ev.arg = "Left") => (~dragging /\ selected_axis = None)

\* a press along ray r that hits no object (no object's centre within the
\* selection threshold of the ray's start) and no axis of a displayed gizmo
HitsNothing(r) ==
    /\ check_object_selection(r[1])[1] = None
    /\ \/ ~transform_mode
       \/ selected_object = None
       \/ PickLoop(1, None, 0, r[1], r[2], get_object_position) = None

\* C16: a primary-button press that hits neither an object nor a gizmo axis
\* while no drag is in progress leaves nothing selected, in normal mode and in
\* transform mode alike; so does leaving transform mode.
C16_ClickAwayClearsSelection ==
    [][/\ \A r \in SceneRays :
             (~dragging /\ HitsNothing(r) /\ mousePressEvent("Left", r[1], r[2]))
                => (selected_object' = None /\ selected_axis' = None)
       /\ (ev'.op = "toggle_transform_mode" /\ ev'.arg = "off")
             => (selected_object' = None /\ selected_axis' = None)]_vars

\* C17: the stored mesh always has len(model_vertices) = len(model_normals) =
\* vertex_count with vertex_count a multiple of 3, and its stored positions
\* are changed by nothing but a load.
C17_MeshArraysConsistent ==
    /\ [](/\ PyLen(model_vertices) = PyLen(model_normals)
          /\ PyLen(model_vertices) = vertex_count
          /\ vertex_count % 3 = 0)
    /\ [][model_vertices' # model_vertices => ev'.op = "load_model"]_vars

\* the rows the last load read from its file, and the bounding box of the
\* rows it stored (numerators over model_vertices.data.den)
LoadedRows == Positions(Assemble(infile).corners)
StoredNum == model_vertices.data.num
StoredExtent(k) == BoxMax(StoredNum, k) - BoxMin(StoredNum, k)

\* C18: after a load of a mesh whose bounding box has non-zero extent, the
\* bounding box of the stored positions has its midpoint at the origin and its
\* largest dimension equal to 5; a mesh with zero extent is stored with scale
\* factor 1 (each position minus the centre), the load succeeding.
C18_BoundingBoxNormalised ==
    (ev.op = "load_model" /\ ev.arg = GenPath /\ Assemble(infile).err = ""
        /\ LoadedRows # << >> /\ ev.log # << "RuntimeError" >>)
      => /\ ev.res = "ok"
         /\ IF \E k \in 1..3 : BoxMax(LoadedRows, k) # BoxMin(LoadedRows, k)
            THEN /\ \A k \in 1..3 : BoxMax(StoredNum, k) + BoxMin(StoredNum, k) = 0
                 /\ SetMax({StoredExtent(k) : k \in 1..3}) = 5 * model_vertices.data.den
            ELSE \A j \in 1..Len(StoredNum) : \A k \in 1..3 :
                    2 * StoredNum[j][k]
                      = model_vertices.data.den
                          * (2 * LoadedRows[j][k] - BoxMax(LoadedRows, k) - BoxMin(LoadedRows, k))

\* a mesh of non-zero extent whose largest dimension is not along x
C18_Witness ==
    /\ ev.op = "load_model" /\ ev.arg = GenPath /\ ev.res = "ok"
    /\ BoxMax(LoadedRows, 1) - BoxMin(LoadedRows, 1) < BoxMax(LoadedRows, 2) - BoxMin(LoadedRows, 2)
    /\ SetMax({StoredExtent(k) : k \in 1..3}) = 5 * model_vertices.data.den

\* C19: a load_model or a cleanup (with a handle to release) called while no
\* rendering context is current fails as a reported error and changes neither
\* a buffer handle, nor the driver's allocated names, nor the loaded-mesh state.
C19_NoContextFailsCleanly ==
    [][(/\ gl_ctx # "current"
        /\ \/ ev'.op \in {"load_model", "ml_load_model"}
           \/ ev'.op = "cleanup" /\ (vbo_vertices # NoHandle \/ vbo_normals # NoHandle))
         => /\ ev'.res \in {"error", "False"}
            /\ UNCHANGED << vbo_vertices, vbo_normals, vertex_count, model_loaded,
                            mlVars, gl_live >>]_vars

\* C20: every pointer move that drags an object, mesh or wind plate, leaves it
\* at snapshot position + axis * (the event's movement along the axis), a
\* position computed from the snapshot and not from where the object was.
C20_DragFromSnapshot ==
    [][(ev'.op = "mouseMoveEvent" /\ ev'.arg = "drag" /\ ev'.res \in {"wind_plate", "model"})
         => LET target == VAdd(drag_start_transform[1].position,
                               VScale(AxisDir(selected_axis), ev'.log[1]))
            IN IF ev'.res = "wind_plate"
               THEN wind_plate'[1].position = target
               ELSE model_vertices'.off = target]_vars

\* the axis a pick along the ray finds on the selected object's gizmo
AxisUnderRay(r) == PickLoop(1, None, 0, r[1], r[2], get_object_position)

\* C21: a pointer move with no button pressed, made while an object is selected
\* in transform mode, no axis is selected and the cursor ray is within the
\* threshold of a gizmo axis, sets selected_axis to that axis; and dragging
\* starts on a primary-button press only, with the drag snapshot equal to the
\* selected object's transform at that moment.
C21_HoverThenDrag ==
    [][/\ \A r \in SceneRays, m \in Moves :
             (/\ transform_mode /\ selected_object # None
              /\ ~dragging /\ selected_axis = None
              /\ AxisUnderRay(r) # None
              /\ mouseMoveEvent({}, << m, 0 >>, m))
                => selected_axis' = AxisUnderRay(r)
       /\ (~dragging /\ dragging')
             => /\ ev'.op = "mousePressEvent" /\ ev'.arg = "Left"
                /\ drag_start_transform' = get_object_transform]_vars

(***************************************************************************)
(* Ingestion of faces of every length: one face of 0 .. MaxFaceLen vertex  *)
(* references to the first three of four positions, faces that refer to    *)
(* all four, files of two and three faces with a short face among them,    *)
(* and a cube written as six quads                                         *)
(***************************************************************************)
MaxFaceLen == 5

FaceVs == [i \in 1..4 |-> GenV(i)]
RECURSIVE FacesOfLen(_)
FacesOfLen(k) ==
    IF k = 0 THEN {<< >>}
    ELSE {Append(face, C(i)) : face \in FacesOfLen(k - 1), i \in 1..3}
CubeVs == << Vec(0, 0, 0), Vec(1, 0, 0), Vec(1, 1, 0), Vec(0, 1, 0),
             Vec(0, 0, 1), Vec(1, 0, 1), Vec(1, 1, 1), Vec(0, 1, 1) >>
Quad(a, b, c, d) == << C(a), C(b), C(c), C(d) >>
CubeFile == MkFile("obj", FALSE, CubeVs, << >>,
                   << Quad(1, 2, 3, 4), Quad(5, 8, 7, 6), Quad(1, 5, 6, 2),
                      Quad(2, 6, 7, 3), Quad(3, 7, 8, 4), Quad(5, 1, 4, 8) >>)
FaceFiles ==
    {MkFile("obj", FALSE, FaceVs, << >>, << face >>) :
        face \in UNION {FacesOfLen(k) : k \in 0..MaxFaceLen}}
      \cup {MkFile("obj", FALSE, FaceVs, << >>, << short, face >>) :
              short \in FacesOfLen(1), face \in FacesOfLen(3)}
      \cup {MkFile("obj", FALSE, FaceVs, << >>,
                    << Quad(1, 2, 3, 4), short, << C(4), C(2), C(1) >> >>) :
              short \in FacesOfLen(2)}
      \cup {MkFile("obj", FALSE, FaceVs, << >>, << face >>) :
              face \in {Quad(1, 2, 3, 4), Quad(4, 2, 3, 1),
                        << C(1), C(2), C(3), C(4), C(2) >>}}
      \cup {CubeFile}

InitFaces == InitViewport /\ InitRest /\ infile \in FaceFiles
FaceLoadStep == \E gv \in BOOLEAN, gn \in BOOLEAN : load_model(GenPath, gv, gn)
NextFaces == FaceLoadStep
SpecFaces == InitFaces /\ [][NextFaces]_vars

\* the triangles (v0, v_i, v_(i+1)), i = i .. k-2, of a face's 0-based references
RECURSIVE Fan(_, _)
Fan(fv, i) ==
    IF i > Len(fv) - 2 THEN << >>
    ELSE << fv[1], fv[i + 1], fv[i + 2] >> \o Fan(fv, i + 1)
RECURSIVE FanAll(_)
FanAll(faces) ==
    IF faces = << >> THEN << >>
    ELSE Fan(FaceVerts(Head(faces)), 1) \o FanAll(Tail(faces))
\* the positions of the fan triangles of the file
FanRows(f) ==
    LET fan == FanAll(f.faces)
    IN [j \in 1..Len(fan) |-> f.vs[fan[j] + 1]]
\* the references, as written, of the corners load_obj appends
EmittedRefs(f) ==
    LET corners == Assemble(f).corners
    IN [j \in 1..Len(corners) |-> corners[j].vi]

\* C22: ingestion emits, for every face of k >= 3 vertex references, exactly
\* the k-2 triangles (v0, v_i, v_(i+1)), i = 1 .. k-2, in that order, and
\* nothing for a face of fewer than 3 references: the references appended
\* are the fan's, vertex_count is their number and the stored positions are
\* the fan's positions, centred and scaled; a cube of 6 quads has vertex_count 36.
C22_FanTriangulation ==
    /\ EmittedRefs(infile) = FanAll(infile.faces)
    /\ (ev.op = "load_model" /\ ev.arg = GenPath /\ ev.res = "ok")
          => /\ vertex_count = Len(FanAll(infile.faces))
             /\ model_vertices.data = Normalize(FanRows(infile))
             /\ infile = CubeFile => vertex_count = 36
    /\ (ev.op = "load_model" /\ ev.arg = GenPath /\ FanAll(infile.faces) = << >>)
          => ev.res = "error" /\ vertex_count = 0

\* the cube of six quads is loaded as 12 triangles
C22_Witness ==
    /\ ev.op = "load_model" /\ ev.arg = GenPath /\ ev.res = "ok"
    /\ infile = CubeFile
    /\ vertex_count = 36

\* the 1-based face entry the r-th corner (r = 1, 2, 3) of the t-th fan
\* triangle of a face is written by
FanEntry(t, r) == IF r = 1 THEN 1 ELSE t + r - 1

\* C23: for every triangle a successfully loaded one-face file emits: if the
\* face entries of all three corners carry a normal index, each corner gets
\* the normal its own entry references; otherwise all three corners get the
\* computed flat normal of the triangle; no corner gets a normal index that
\* a different entry of the face wrote.
C23_NormalsPerCorner ==
    (ev.op = "load_model" /\ ev.arg = GenPath /\ ev.res = "ok" /\ Len(infile.faces) = 1)
      => LET face == infile.faces[1]
             corners == Assemble(infile).corners
         IN \A t \in 1..(Len(corners) \div 3) :
               LET at(r) == corners[3 * (t - 1) + r]
                   entry(r) == face[FanEntry(t, r)]
               IN IF \A r \in 1..3 : entry(r).hasn
                  THEN \A r \in 1..3 : at(r).supplied /\ at(r).ni = entry(r).n - 1
                  ELSE \A r \in 1..3 : ~at(r).supplied
                                        /\ at(r).cross = at(1).cross

\* the rows of model_normals a successful load of the file stores
LoadedNormals == Normals(Assemble(infile).corners)

\* C24: after a successful load every corner whose normal was computed from a
\* triangle with a zero edge cross product (coincident or collinear corners)
\* holds exactly (0, 1, 0), and no computed normal is a vector divided by a
\* zero length.
C24_DegenerateNormalIsUp ==
    (ev.op = "load_model" /\ ev.arg = GenPath /\ ev.res = "ok")
      => LET corners == Assemble(infile).corners
         IN /\ model_normals.rows = Len(LoadedNormals)
            /\ \A j \in 1..Len(corners) :
                  ~corners[j].supplied
                    => /\ LoadedNormals[j][4] > 0
                       /\ corners[j].cross = Vec(0, 0, 0)
                            => LoadedNormals[j] = << 0, 1, 0, 1 >>

\* a triangle of three distinct collinear positions is loaded with the
\* normal (0, 1, 0) at its corners
C24_Witness ==
    /\ ev.op = "load_model" /\ ev.arg = GenPath /\ ev.res = "ok"
    /\ infile = CollinearFile
    /\ model_normals.rows = 3
    /\ LoadedNormals = << << 0, 1, 0, 1 >>, << 0, 1, 0, 1 >>, << 0, 1, 0, 1 >> >>

(***************************************************************************)
(* Picking: loads, the wind plate and its position spin box, transform     *)
(* mode and the primary button, with no pointer move                       *)
(***************************************************************************)
PickPressStep == \E r \in PickRays : mousePressEvent("Left", r[1], r[2])
\* the z position spin box set to the plate's first position or next to the mesh
WindSpinStep == \E z \in {-5, -1} : update_wind_transform(z)

NextPick ==
    \/ LoadStep
    \/ PickPressStep
    \/ ReleaseStep
    \/ ToggleStep
    \/ WindStep
    \/ WindSpinStep

SpecPick == Init /\ [][NextPick]_vars

\* the computed distances (times the ray's length) of the ray to the three axes
\* about pos, the axes under the threshold 0.1, and the nearest of them, the
\* earlier one on equal distances
AxisDist(r, pos, k) == point_line_distance(r[1], r[2], pos, Axes[k])
BelowThreshold(r, pos) == {k \in 1..3 : 10 * AxisDist(r, pos, k) < r[2].d}
NearestAxis(r, pos) ==
    IF BelowThreshold(r, pos) = {} THEN None
    ELSE Axes[CHOOSE k \in BelowThreshold(r, pos) :
                 \A j \in BelowThreshold(r, pos) :
                    \/ AxisDist(r, pos, k) < AxisDist(r, pos, j)
                    \/ AxisDist(r, pos, k) = AxisDist(r, pos, j) /\ k <= j]

\* C25: a primary-button press in transform mode with an object selected sets
\* selected_axis to the axis whose computed distance to the ray is the
\* smallest of those strictly under the threshold, the earlier of x, y, z on
\* equal distances, and to none when no axis is under it; get_clicked_axis
\* returns the same for the wind plate; both are functions of the ray and the
\* object's position alone.
C25_NearestAxisPicked ==
    /\ [][\A r \in PickRays :
             (ev'.op = "mousePressEvent" /\ transform_mode /\ selected_object # None
                /\ mousePressEvent("Left", r[1], r[2]))
               => selected_axis' = NearestAxis(r, get_object_position)]_vars
    /\ [](\A r \in PickRays :
             wind_plate # << >> => get_clicked_axis(r[1], r[2]) = NearestAxis(r, WindPos))

\* a press has picked y on the mesh's gizmo where a ray of the input set lies
\* on the y axis and, farther but under the threshold, near the x axis
C25_Witness ==
    /\ ev.op = "mousePressEvent" /\ transform_mode /\ dragging
    /\ selected_object = "model" /\ selected_axis = "y"
    /\ \E r \in PickRays :
          /\ BelowThreshold(r, get_object_position) = {1, 2}
          /\ AxisDist(r, get_object_position, 1) > 0
          /\ AxisDist(r, get_object_position, 2) = 0

\* the ray runs along the axis a
ParallelTo(r, a) == Cross(r[2].v, AxisDir(a)) = Vec(0, 0, 0)
\* the squared distance between the ray's line and the line of axis a about
\* pos, for a ray that runs along a; the axis segment is at least as far
LineGap2(r, pos, a) ==
    LET delta == VSub(pos, r[1])
    IN Dot(delta, delta) - Dot(delta, AxisDir(a)) * Dot(delta, AxisDir(a))

\* C26: picking measures the distance of the ray to the bounded axis segments:
\* a press whose ray is merely parallel to an axis, at more than the
\* threshold 0.1 from that axis's line (so from its segment), does not pick
\* that axis.
C26_ParallelRayPicksNothing ==
    [][\A r \in PickRays, a \in {"x", "y", "z"} :
          (/\ ev'.op = "mousePressEvent" /\ transform_mode /\ selected_object # None
           /\ mousePressEvent("Left", r[1], r[2])
           /\ ParallelTo(r, a)
           /\ 100 * LineGap2(r, get_object_position, a) > 1)
            => selected_axis' # a]_vars

\* the ray starts within the selection threshold 2.0 of the point p
WithinPick(r, p) == Dot(VSub(r[1], p), VSub(r[1], p)) < 4

\* C27: a primary-button press in normal mode returns without an exception
\* and selects the wind plate if it exists and the ray origin is within 2.0
\* of its position; otherwise the mesh if one is loaded and the ray origin is
\* within 2.0 of the scene origin; otherwise nothing, with selected_object
\* and selected_axis none.  The wind plate wins when both qualify.
C27_ThresholdSelection ==
    [][\A r \in PickRays :
          (ev'.op = "mousePressEvent" /\ ~transform_mode
              /\ mousePressEvent("Left", r[1], r[2]))
            => /\ ev'.res = "ok"
               /\ IF wind_plate # << >> /\ WithinPick(r, WindPos)
                  THEN selected_object' = "wind_plate"
                  ELSE IF model_loaded /\ WithinPick(r, Vec(0, 0, 0))
                  THEN selected_object' = "model"
                  ELSE selected_object' = None /\ selected_axis' = None]_vars

\* a press in normal mode has selected the wind plate with a mesh loaded, and
\* every ray that starts within the threshold of the plate starts within the
\* threshold of the scene origin too
C27_Witness ==
    /\ ev.op = "mousePressEvent" /\ ev.arg = "Left" /\ ~transform_mode
    /\ model_loaded /\ selected_object = "wind_plate"
    /\ \A r \in PickRays : WithinPick(r, WindPos) => WithinPick(r, Vec(0, 0, 0))

(***************************************************************************)
(* Rendering: render passes between loads, the wind plate, selections and  *)
(* the grid and axes check boxes                                           *)
(***************************************************************************)
RenderLoadStep == \E p \in {"tri.obj", "a.stl", "over.obj"} : load_model(p, TRUE, TRUE)
RenderPressStep ==
    \E r \in {rr \in SceneRays : rr[2] = Ray(Vec(0, 0, 1), 1)} :
        mousePressEvent("Left", r[1], r[2])
GridStep == \E st \in BOOLEAN : toggle_grid(st)
AxesStep == \E st \in BOOLEAN : toggle_axes(st)

NextRender ==
    \/ RenderLoadStep
    \/ WindStep
    \/ RenderPressStep
    \/ GridStep
    \/ AxesStep
    \/ paintGL

SpecRender == Init /\ [][NextRender]_vars

\* the place of a draw call in the order grid, axes, mesh, wind plate, gizmo;
\* the streamlines belong to the mesh
Layer(call) ==
    CASE call = "draw_grid" -> 1
      [] call = "draw_axes" -> 2
      [] call \in {"draw_model", "draw_model:AttributeError", "draw_streamlines"} -> 3
      [] call = "draw_wind_plate" -> 4
      [] call = "draw_transform_gizmos" -> 5
Drawn(call) == \E j \in 1..Len(ev.log) : ev.log[j] = call

\* C28: every render pass draws in the order grid, axes, mesh, wind plate,
\* gizmo overlay, each at most once: the grid and the axes exactly when
\* enabled, the mesh only if one is loaded, the wind plate exactly when one
\* was created, the gizmo overlay exactly when an object is selected.
C28_DrawOrder ==
    ev.op = "paintGL"
      => /\ \A j, k \in 1..Len(ev.log) :
               j < k => /\ Layer(ev.log[j]) <= Layer(ev.log[k])
                        /\ ev.log[j] # ev.log[k]
         /\ Drawn("draw_grid") <=> show_grid
         /\ Drawn("draw_axes") <=> show_axes
         /\ (Drawn("draw_model") \/ Drawn("draw_model:AttributeError")) => model_loaded
         /\ Drawn("draw_wind_plate") <=> wind_plate # << >>
         /\ Drawn("draw_transform_gizmos") <=> selected_object # None

\* a pass that drew all five layers
C28_Witness ==
    /\ ev.op = "paintGL"
    /\ ev.log = << "draw_grid", "draw_axes", "draw_model", "draw_wind_plate",
                   "draw_transform_gizmos" >>

(***************************************************************************)
(* Pointer moves with any of the three buttons held: the buttons an event  *)
(* reports are the ones whose press the widget has received and whose      *)
(* release it has not                                                      *)
(***************************************************************************)
HeldButtons ==
    (IF orbiting THEN {"Right"} ELSE {}) \cup (IF panning THEN {"Middle"} ELSE {})
      \cup (IF dragging THEN {"Left"} ELSE {})
CursorDeltas == {<< 1, 0 >>, << 0, 1 >>}

MvLoadStep == load_model("tri.obj", TRUE, TRUE)
MvPressStep == \E b \in Buttons : mousePressEvent(b, Vec(0, 0, 0), Ray(Vec(0, 0, 1), 1))
MvReleaseStep == \E b \in Buttons : mouseReleaseEvent(b)
MvMoveStep == \E d \in CursorDeltas : mouseMoveEvent(HeldButtons, d, d[1])

NextMove ==
    \/ MvLoadStep
    \/ MvPressStep
    \/ MvReleaseStep
    \/ MvMoveStep
    \/ ToggleStep

SpecMove == Init /\ [][NextMove]_vars

\* what a step changed
RotationChanged == rotation' # rotation
PanChanged == pan_offset' # pan_offset
ObjectMoved == wind_plate' # wind_plate \/ model_vertices' # model_vertices

\* C29: a pointer move changes at most one of the camera rotation, the pan
\* offset and the selected object's position; with the orbit flag set it is
\* the rotation alone, with the pan flag and no orbit flag the pan offset
\* alone, and with none of orbiting, panning and dragging set it changes no
\* camera or scene-object state.
C29_OneModePerMove ==
    [][\A d \in CursorDeltas :
          (ev'.op = "mouseMoveEvent" /\ mouseMoveEvent(HeldButtons, d, d[1]))
            => /\ ~(RotationChanged /\ PanChanged)
               /\ ~(RotationChanged /\ ObjectMoved)
               /\ ~(PanChanged /\ ObjectMoved)
               /\ orbiting => rotation' = Orbit(rotation, d) /\ ~PanChanged /\ ~ObjectMoved
               /\ (panning /\ ~orbiting)
                     => pan_offset' = Pan(pan_offset, d) /\ ~ObjectMoved
               /\ (~orbiting /\ ~panning /\ ~dragging)
                     => UNCHANGED << viewVars, selVars, camVars, wind_plate >>]_vars

\* a pointer move has orbited the camera while the pan and the drag flag were
\* set as well, and neither the pan offset nor the mesh has moved
C29_Witness ==
    /\ ev.op = "mouseMoveEvent" /\ ev.arg = "orbit"
    /\ orbiting /\ panning /\ dragging
    /\ selected_object = "model" /\ selected_axis # None
    /\ rotation # default_rotation
    /\ pan_offset = << 0, 0 >>
    /\ model_vertices.off = Vec(0, 0, 0)

(***************************************************************************)
(* The renderer's buffer next to the loader's, on the one driver           *)
(***************************************************************************)
RInitStep == \E g \in BOOLEAN : r_init_buffers(g)

NextRenderer ==
    \/ RInitStep
    \/ r_cleanup
    \/ MLLoadStep
    \/ ml_cleanup

SpecRenderer == Init /\ [][NextRenderer]_vars

\* C30: the renderer's cleanup never issues a delete for a name that is not
\* allocated, however often it is called after init_buffers and also when
\* the handle is absent; and a cleanup called right after a cleanup changes
\* neither the handle nor the driver's names.
C30_RendererCleanupIdempotent ==
    /\ [](gl_double = {})
    /\ [][(ev.op = "renderer.cleanup" /\ ev'.op = "renderer.cleanup")
            => UNCHANGED << r_vbo, gl_live, gl_double >>]_vars

\* cleanup has been called twice in a row after init_buffers allocated a buffer
C30_Witness ==
    /\ ev.op = "renderer.cleanup" /\ ev.arg = "again"
    /\ r_vbo.st = "id" /\ r_vbo.id # 0
    /\ gl_double = {}

====
